---- MODULE Spec2Model ----
(***************************************************************************)
(* The IP address / CIDR block engine of src/src/Internet.ts.              *)
(*                                                                         *)
(* Texts are TLA+ strings.  A JavaScript bigint is a sequence of base      *)
(* 2^16 limbs, least significant first, without high zero limbs (zero is   *)
(* the empty sequence), so that every conversion between a bigint and its  *)
(* binary, hexadecimal or dotted text is computed digit by digit.  A       *)
(* negative bigint is the limbs of its magnitude with the high limb        *)
(* negated; only its text is ever computed.                                *)
(***************************************************************************)
EXTENDS Integers, Sequences, FiniteSets, TLC

VARIABLES address, bigint, encoded, block, stream, emitted, inputs, result, call,
          other

vars == <<address, bigint, encoded, block, stream, emitted, inputs, result, call, other>>

(***************************************************************************)
(* JavaScript string primitives                                            *)
(***************************************************************************)
Min(a, b) == IF a <= b THEN a ELSE b

\* the characters i..j of s, the empty string when there are none
Substr(s, i, j) == IF i > j \/ i > Len(s) \/ j < 1 THEN "" ELSE SubSeq(s, i, j)

CharAt(s, i) == Substr(s, i, i)

\* c.repeat(n)
RECURSIVE Repeat(_, _)
Repeat(c, n) ==
    IF n <= 0 THEN ""
    ELSE IF n % 2 = 1 THEN c \o Repeat(c, n - 1)
    ELSE Repeat(c \o c, n \div 2)

PadStart(s, n, c) == IF Len(s) >= n THEN s ELSE Repeat(c, n - Len(s)) \o s

\* s.slice(from, to) with 0 <= from, 0 <= to
Slice(s, from, to) == Substr(s, from + 1, Min(to, Len(s)))

\* the least position of a set of positions, 0 if there is none
FirstOf(at) == IF at = {} THEN 0 ELSE CHOOSE j \in at : \A k \in at : j <= k

\* position of the first occurrence of d in s at or after position i, 0 if none
IndexOf(s, d, i) ==
    FirstOf({j \in i..(Len(s) - Len(d) + 1) : Substr(s, j, j + Len(d) - 1) = d})

\* s.split(d) for a non-empty separator d; SplitAt cuts s at the first
\* occurrence i of d
RECURSIVE Split(_, _), SplitAt(_, _, _)
SplitAt(s, d, i) ==
    IF i = 0 THEN <<s>>
    ELSE <<Substr(s, 1, i - 1)>> \o Split(Substr(s, i + Len(d), Len(s)), d)

Split(s, d) == SplitAt(s, d, IndexOf(s, d, 1))

RECURSIVE Join(_, _)
Join(parts, sep) ==
    IF Len(parts) = 0 THEN ""
    ELSE IF Len(parts) = 1 THEN parts[1]
    ELSE parts[1] \o sep \o Join(Tail(parts), sep)

LowerDigits == "0123456789abcdef"
UpperDigits == "0123456789ABCDEF"

\* the characters of a text, as a set
CharsOf(chars) == {Substr(chars, i, i) : i \in 1..Len(chars)}

\* the value of every character that is a digit, in either case
DigitTable ==
    [c \in CharsOf(LowerDigits) \cup CharsOf(UpperDigits) |->
        IF IndexOf(LowerDigits, c, 1) > 0 THEN IndexOf(LowerDigits, c, 1) - 1
        ELSE IndexOf(UpperDigits, c, 1) - 1]

\* the value of the character c as a digit of the radix, -1 if it is none
DigitValue(c, radix) ==
    IF c \in DOMAIN DigitTable /\ DigitTable[c] < radix THEN DigitTable[c] ELSE -1

\* A number is modelled by an integer: an integral number by itself, NaN by
\* the integer NaN, which no computation of the program reaches, and the
\* non-integral number k + 1/2, for a natural k, by Half(k)
NaN == -1000000

Half(k) == 1000000 + k

\* Number.isSafeInteger(n)
IsInteger(n) == n # NaN /\ n < Half(0)

\* parseInt(s, radix): white space is skipped, then a sign, then with radix
\* 16 a prefix 0x, then the longest prefix of digits; NaN when there is none
RECURSIVE ParseDigits(_, _, _, _)
ParseDigits(s, radix, i, acc) ==
    IF i > Len(s) \/ DigitValue(CharAt(s, i), radix) < 0 THEN acc
    ELSE ParseDigits(s, radix, i + 1, acc * radix + DigitValue(CharAt(s, i), radix))

RECURSIVE TrimStart(_)
TrimStart(s) ==
    IF Len(s) > 0 /\ CharAt(s, 1) = " " THEN TrimStart(Substr(s, 2, Len(s))) ELSE s

ParseSign(s) == IF Len(s) > 0 /\ CharAt(s, 1) = "-" THEN -1 ELSE 1

StripSign(s) ==
    IF Len(s) > 0 /\ CharAt(s, 1) \in {"+", "-"} THEN Substr(s, 2, Len(s)) ELSE s

ParseStripPrefix(s, radix) ==
    IF radix = 16 /\ Len(s) >= 2 /\ Substr(s, 1, 2) \in {"0x", "0X"}
    THEN Substr(s, 3, Len(s)) ELSE s

ParseMagnitude(sign, s, radix) ==
    IF Len(s) = 0 \/ DigitValue(CharAt(s, 1), radix) < 0 THEN NaN
    ELSE sign * ParseDigits(s, radix, 1, 0)

ParseIntTrimmed(s, radix) ==
    ParseMagnitude(ParseSign(s), ParseStripPrefix(StripSign(s), radix), radix)

ParseInt(s, radix) == ParseIntTrimmed(TrimStart(s), radix)

\* n.toString(radix) of a number
RECURSIVE NumberDigits(_, _)
NumberDigits(n, radix) ==
    IF n = 0 THEN ""
    ELSE NumberDigits(n \div radix, radix) \o CharAt(LowerDigits, (n % radix) + 1)

NumberToString(n, radix) ==
    IF n = NaN THEN "NaN"
    ELSE IF n = 0 THEN "0"
    ELSE IF n < 0 THEN "-" \o NumberDigits(0 - n, radix)
    ELSE NumberDigits(n, radix)

(***************************************************************************)
(* JavaScript bigint                                                       *)
(***************************************************************************)
Limb == 65536

RECURSIVE BigNorm(_)
BigNorm(l) ==
    IF Len(l) = 0 THEN l
    ELSE IF l[Len(l)] = 0 THEN BigNorm(SubSeq(l, 1, Len(l) - 1))
    ELSE l

\* l * m + c for small m, c
RECURSIVE BigMulAdd(_, _, _)
BigMulAdd(l, m, c) ==
    IF Len(l) = 0 THEN (IF c = 0 THEN <<>> ELSE <<c>>)
    ELSE LET t == l[1] * m + c
         IN  <<t % Limb>> \o BigMulAdd(Tail(l), m, t \div Limb)

\* the quotient and the remainder of l by a small d, from the high limb down
RECURSIVE BigDivRem(_, _, _)
BigDivRem(l, d, r) ==
    IF Len(l) = 0 THEN [quot |-> <<>>, rem |-> r]
    ELSE LET t    == r * Limb + l[Len(l)]
             rest == BigDivRem(SubSeq(l, 1, Len(l) - 1), d, t % d)
         IN  [quot |-> rest.quot \o <<t \div d>>, rem |-> rest.rem]

BigDiv(l, d) == BigNorm(BigDivRem(l, d, 0).quot)
BigRem(l, d) == BigDivRem(l, d, 0).rem

RECURSIVE BigAddCarry(_, _, _)
BigAddCarry(a, b, c) ==
    IF Len(a) = 0 /\ Len(b) = 0 THEN (IF c = 0 THEN <<>> ELSE <<c>>)
    ELSE LET x == IF Len(a) = 0 THEN 0 ELSE a[1]
             y == IF Len(b) = 0 THEN 0 ELSE b[1]
             t == x + y + c
         IN  <<t % Limb>> \o BigAddCarry(IF Len(a) = 0 THEN a ELSE Tail(a),
                                         IF Len(b) = 0 THEN b ELSE Tail(b),
                                         t \div Limb)

BigAdd(a, b) == BigNorm(BigAddCarry(a, b, 0))

\* a - b for a >= b
RECURSIVE BigSubBorrow(_, _, _)
BigSubBorrow(a, b, c) ==
    IF Len(a) = 0 THEN <<>>
    ELSE LET y == IF Len(b) = 0 THEN 0 ELSE b[1]
             t == a[1] - y - c
         IN  <<t % Limb>> \o BigSubBorrow(Tail(a),
                                          IF Len(b) = 0 THEN b ELSE Tail(b),
                                          IF t < 0 THEN 1 ELSE 0)

BigSub(a, b) == BigNorm(BigSubBorrow(a, b, 0))

RECURSIVE BigLess(_, _)
BigLess(a, b) ==
    IF Len(a) # Len(b) THEN Len(a) < Len(b)
    ELSE IF Len(a) = 0 THEN FALSE
    ELSE IF a[Len(a)] # b[Len(b)] THEN a[Len(a)] < b[Len(b)]
    ELSE BigLess(SubSeq(a, 1, Len(a) - 1), SubSeq(b, 1, Len(b) - 1))

BigLeq(a, b) == ~BigLess(b, a)

BigOne == <<1>>

\* BigInt("0x..") and BigInt("0b.."): a SyntaxError unless every character
\* is a digit of the radix
SyntaxError == [error |-> "SyntaxError"]

\* the number of digits of the radix (2 or 16) that one limb holds
DigitsPerLimb(radix) == IF radix = 2 THEN 16 ELSE 4

\* the limbs of a digit string, sixteen bits at a time from its right end
RECURSIVE BigParseDigits(_, _)
BigParseDigits(s, radix) ==
    LET n == DigitsPerLimb(radix)
    IN  IF Len(s) = 0 THEN <<>>
        ELSE IF Len(s) <= n THEN <<ParseDigits(s, radix, 1, 0)>>
        ELSE <<ParseDigits(Substr(s, Len(s) - n + 1, Len(s)), radix, 1, 0)>>
             \o BigParseDigits(Substr(s, 1, Len(s) - n), radix)

BigIntParse(s, radix) ==
    IF Len(s) = 0 \/ \E i \in 1..Len(s) : DigitValue(CharAt(s, i), radix) < 0
    THEN SyntaxError
    ELSE [value |-> BigNorm(BigParseDigits(s, radix))]

\* value.toString(radix) of a bigint, radix 2 or 16: the high limb without
\* leading zeros, every lower limb at its full width
RECURSIVE BigDigits(_, _)
BigDigits(l, radix) ==
    IF Len(l) = 0 THEN ""
    ELSE IF Len(l) = 1 THEN NumberToString(l[1], radix)
    ELSE BigDigits(Tail(l), radix)
         \o PadStart(NumberToString(l[1], radix), DigitsPerLimb(radix), "0")

\* a negative bigint, and the limbs of its magnitude
BigIsNegative(l) == Len(l) > 0 /\ l[Len(l)] < 0

BigAbs(l) == IF BigIsNegative(l) THEN [l EXCEPT ![Len(l)] = 0 - l[Len(l)]] ELSE l

BigToString(l, radix) ==
    IF Len(l) = 0 THEN "0"
    ELSE IF BigIsNegative(l) THEN "-" \o BigDigits(BigAbs(l), radix)
    ELSE BigDigits(l, radix)

(***************************************************************************)
(* Address grammars                                                        *)
(***************************************************************************)
InClass(c, chars) == c \in chars

AllInClass(t, chars) == \A i \in 1..Len(t) : InClass(CharAt(t, i), chars)

Digits0to5 == CharsOf("012345")
Digits0to4 == CharsOf("01234")
Digits1to9 == CharsOf("123456789")
Digits0to9 == CharsOf("0123456789")
HexChars   == CharsOf("0123456789abcdefABCDEF")
ZoneChars  == CharsOf("0123456789abcdefghijklmnopqrstuvwxyzABCDEFGHIJKLMNOPQRSTUVWXYZ-.:")

\* a segment of one to three digits, of any value
IPv4SegmentAnyDigits(t) == Len(t) \in 1..3 /\ AllInClass(t, Digits0to9)

\* IPv4Segment: 25[0-5] | 2[0-4][0-9] | 1[0-9][0-9] | [1-9][0-9] | [0-9]
IPv4Segment(t) ==
    \/ Len(t) = 3 /\ Substr(t, 1, 2) = "25" /\ InClass(CharAt(t, 3), Digits0to5)
    \/ Len(t) = 3 /\ CharAt(t, 1) = "2" /\ InClass(CharAt(t, 2), Digits0to4)
                  /\ InClass(CharAt(t, 3), Digits0to9)
    \/ Len(t) = 3 /\ CharAt(t, 1) = "1" /\ InClass(CharAt(t, 2), Digits0to9)
                  /\ InClass(CharAt(t, 3), Digits0to9)
    \/ Len(t) = 2 /\ InClass(CharAt(t, 1), Digits1to9)
                  /\ InClass(CharAt(t, 2), Digits0to9)
    \/ Len(t) = 1 /\ InClass(CharAt(t, 1), Digits0to9)

\* IPv4StringRegex: (segment\.){3}segment, matched against the whole of t
IPv4Segments(parts) == Len(parts) = 4 /\ \A i \in 1..4 : IPv4Segment(parts[i])

IPv4StringRegex(t) == IPv4Segments(Split(t, "."))

IPv4Regex(t) == IPv4StringRegex(t)

\* a segment that may be empty
IPv6SegmentOrEmpty(t) == Len(t) \in 0..4 /\ AllInClass(t, HexChars)

\* IPv6Segment: [0-9a-fA-F]{1,4}
IPv6Segment(t) == Len(t) \in 1..4 /\ AllInClass(t, HexChars)

\* The patterns below are matched on the pieces of the text between its
\* colons: no segment and no dotted tail holds a colon, so the pieces decide
\* the match.

\* (segment:){n} matches a prefix of the text whose pieces are parts
SegmentColons(parts, n) ==
    Len(parts) > n /\ \A i \in 1..n : IPv6Segment(parts[i])

\* the pieces of what follows that prefix
AfterSegmentColons(parts, n) == SubSeq(parts, n + 1, Len(parts))

\* the rest is a lone ":"
LoneColon(rest) == rest = <<"", "">>

\* (:segment){lo,hi} matches the whole rest
ColonSegments(rest, lo, hi) ==
    IF rest = <<"">> THEN lo = 0
    ELSE /\ rest[1] = ""
         /\ (Len(rest) - 1) \in lo..hi
         /\ \A i \in 2..Len(rest) : IPv6Segment(rest[i])

\* (:segment){lo,hi}:IPv4StringRegex matches the whole rest
ColonSegmentsIPv4(rest, lo, hi) ==
    LET n == Len(rest)
    IN  /\ n >= 2
        /\ rest[1] = ""
        /\ IPv4StringRegex(rest[n])
        /\ (n - 2) \in lo..hi
        /\ \A i \in 2..(n - 1) : IPv6Segment(rest[i])

\* what may follow (segment:){7}, (segment:){6} and (segment:){n}, n <= 5
AfterSeven(r) == (Len(r) = 1 /\ IPv6Segment(r[1])) \/ LoneColon(r)

AfterSix(r) ==
    (Len(r) = 1 /\ IPv4StringRegex(r[1])) \/ ColonSegments(r, 1, 1) \/ LoneColon(r)

AfterFewer(r, most4, most6) ==
    ColonSegmentsIPv4(r, 0, most4) \/ ColonSegments(r, 1, most6) \/ LoneColon(r)

\* the eight alternatives of IPv6Regex, in the order of the source
IPv6AlternativesOf(parts) ==
    \/ SegmentColons(parts, 7) /\ AfterSeven(AfterSegmentColons(parts, 7))
    \/ SegmentColons(parts, 6) /\ AfterSix(AfterSegmentColons(parts, 6))
    \/ SegmentColons(parts, 5) /\ AfterFewer(AfterSegmentColons(parts, 5), 0, 2)
    \/ SegmentColons(parts, 4) /\ AfterFewer(AfterSegmentColons(parts, 4), 1, 3)
    \/ SegmentColons(parts, 3) /\ AfterFewer(AfterSegmentColons(parts, 3), 2, 4)
    \/ SegmentColons(parts, 2) /\ AfterFewer(AfterSegmentColons(parts, 2), 3, 5)
    \/ SegmentColons(parts, 1) /\ AfterFewer(AfterSegmentColons(parts, 1), 4, 6)
    \/ (Len(parts) > 1 /\ parts[1] = "") /\ AfterFewer(Tail(parts), 5, 7)

IPv6Alternatives(b) == IPv6AlternativesOf(Split(b, ":"))

\* IPv6Regex: ^(alternatives)(%[0-9a-zA-Z-.:]{1,})?$, p the position of the
\* first "%" of t
IPv6RegexZone(t, p) ==
    /\ p # 0 => (p < Len(t) /\ AllInClass(Substr(t, p + 1, Len(t)), ZoneChars))
    /\ IPv6Alternatives(IF p = 0 THEN t ELSE Substr(t, 1, p - 1))

IPv6Regex(t) == IPv6RegexZone(t, IndexOf(t, "%", 1))

(***************************************************************************)
(* Address schemas.  A failed decode or encode, and a thrown exception,    *)
(* is a record with the one field error.                                   *)
(***************************************************************************)
Failed(r) == "error" \in DOMAIN r

ParseError == [error |-> "ParseError"]

\* Schema.decode(IPv4): the pattern filter, then the decode of the transform
IPv4(text) ==
    IF IPv4Regex(text) THEN [family |-> "ipv4", ip |-> text] ELSE ParseError

\* Schema.decode(IPv6)
IPv6(text) ==
    IF IPv6Regex(text) THEN [family |-> "ipv6", ip |-> text] ELSE ParseError

\* Schema.Union: the first member that decodes
UnionOf(first, second) == IF ~Failed(first) THEN first ELSE second

\* Schema.decode(Address): the union tries IPv4, then IPv6
Address(text) == UnionOf(IPv4(text), IPv6(text))

\* map over a sequence of texts
MapParseIntToString(parts, from, to) ==
    [i \in 1..Len(parts) |-> NumberToString(ParseInt(parts[i], from), to)]

MapPadStart(parts, n, c) == [i \in 1..Len(parts) |-> PadStart(parts[i], n, c)]

\* the bigint of family ipv4 that BigInt(`0x${hex}`) gives
IPv4BigintValue(value) ==
    IF Failed(value) THEN value ELSE [family |-> "ipv4", value |-> value.value]

\* a decode that does not pad each octet to two hexadecimal digits
IPv4BigintDecodeNoPad(ip) ==
    IPv4BigintValue(BigIntParse(Join(MapParseIntToString(Split(ip, "."), 10, 16), ""), 16))

\* the decode of IPv4Bigint, applied to a decoded IPv4 address
IPv4BigintDecode(ip) ==
    IPv4BigintValue(BigIntParse(
        Join(MapPadStart(MapParseIntToString(Split(ip, "."), 10, 16), 2, "0"), ""), 16))

\* the four octets taken from the low end of the text first
IPv4OctetsReversed(padded) ==
    [k \in 1..4 |->
        NumberToString(ParseInt(Slice(padded, 2 * (4 - k), 2 * (4 - k) + 2), 16), 10)]

\* the four octets of the padded hexadecimal text, in decimal
IPv4Octets(padded) ==
    [k \in 1..4 |->
        NumberToString(ParseInt(Slice(padded, 2 * (k - 1), 2 * (k - 1) + 2), 16), 10)]

\* an encode that does not pad the hexadecimal text to eight digits
IPv4BigintEncodeNoPad(value) ==
    IPv4(Join(IPv4Octets(Join(Split(BigToString(value, 16), ":"), "")), "."))

\* the encode of IPv4Bigint: the address built from a bigint value
IPv4BigintEncode(value) ==
    IPv4(Join(IPv4Octets(PadStart(Join(Split(BigToString(value, 16), ":"), ""), 8, "0")),
              "."))

\* a paddedHex that does not pad
paddedHexNoPad(octet) == NumberToString(ParseInt(octet, 16), 16)

\* paddedHex of the decode of IPv6Bigint
paddedHex(octet) == PadStart(NumberToString(ParseInt(octet, 16), 16), 4, "0")

\* the groups that the decode of IPv6Bigint collects from the text: the
\* groups of each side of the "::", and "0" for each group it stands for
IPv6GroupsSide(parts) == IF Len(parts) = 1 /\ parts[1] = "" THEN <<>> ELSE parts

IPv6GroupsFill(first, last, remaining) ==
    IF remaining = 0 THEN [error |-> "Error parsing groups"]
    ELSE [groups |-> first \o [i \in 1..remaining |-> "0"] \o last]

IPv6GroupsExpand(first, last) ==
    IPv6GroupsFill(first, last, 8 - (Len(first) + Len(last)))

IPv6GroupsOf(ip, halves) ==
    IF Len(halves) = 2
    THEN IPv6GroupsExpand(IPv6GroupsSide(Split(halves[1], ":")),
                          IPv6GroupsSide(Split(halves[2], ":")))
    ELSE IF Len(halves) = 1 THEN [groups |-> Split(ip, ":")]
    ELSE [error |-> "Too many :: groups found"]

IPv6Groups(ip) == IPv6GroupsOf(ip, Split(ip, "::"))

\* the decode of IPv6Bigint, applied to a decoded IPv6 address: the groups
\* are collected, each is parsed and padded, and BigInt reads their text
IPv6BigintValue(value) ==
    IF Failed(value) THEN value ELSE [family |-> "ipv6", value |-> value.value]

IPv6BigintOfGroups(groups) ==
    IF Len(groups) # 8 THEN [error |-> "Invalid number of groups"]
    ELSE IPv6BigintValue(
             BigIntParse(Join([i \in 1..8 |-> paddedHex(groups[i])], ""), 16))

IPv6BigintOfCollected(collected) ==
    IF Failed(collected) THEN collected
    ELSE IPv6BigintOfGroups(MapParseIntToString(collected.groups, 16, 16))

IPv6BigintDecode(ip) == IPv6BigintOfCollected(IPv6Groups(ip))

\* the encode of IPv6Bigint
IPv6HexGroups(hex) == [i \in 1..8 |-> Slice(hex, (i - 1) * 4, i * 4)]

\* an encode that does not pad the hexadecimal text to thirty-two digits
IPv6BigintEncodeNoPad(value) ==
    IPv6(Join(IPv6HexGroups(BigToString(value, 16)), ":"))

IPv6BigintEncode(value) ==
    IPv6(Join(IPv6HexGroups(PadStart(BigToString(value, 16), 32, "0")), ":"))

\* Schema.decodeSync(IPv4Bigint)(text), Schema.decodeSync(IPv6Bigint)(text):
\* the decode of the address schema, then the decode of the bigint schema
IPv4BigintOfAddress(a) == IF Failed(a) THEN a ELSE IPv4BigintDecode(a.ip)

IPv6BigintOfAddress(a) == IF Failed(a) THEN a ELSE IPv6BigintDecode(a.ip)

DecodeIPv4Bigint(text) == IPv4BigintOfAddress(IPv4(text))

DecodeIPv6Bigint(text) == IPv6BigintOfAddress(IPv6(text))

\* Schema.encodeSync(IPv4Bigint)(big), Schema.encodeSync(IPv6Bigint)(big):
\* the encode of the bigint schema, then the encode of the address schema
EncodedText(a) == IF Failed(a) THEN a ELSE [text |-> a.ip]

EncodeIPv4Bigint(big) == EncodedText(IPv4BigintEncode(big.value))

EncodeIPv6Bigint(big) == EncodedText(IPv6BigintEncode(big.value))

\* toBigint and fromBigint of either family
toBigint(a) ==
    IF a.family = "ipv4" THEN DecodeIPv4Bigint(a.ip) ELSE DecodeIPv6Bigint(a.ip)

EncodeBigint(big) ==
    IF big.family = "ipv4" THEN EncodeIPv4Bigint(big) ELSE EncodeIPv6Bigint(big)

AddressOfText(t) == IF Failed(t) THEN t ELSE Address(t.text)

fromBigint(big) == AddressOfText(EncodeBigint(big))

(***************************************************************************)
(* CIDR blocks                                                             *)
(***************************************************************************)
Bits(family) == IF family = "ipv4" THEN 32 ELSE 128

\* a mask filter that accepts the non-integral numbers
IPv6CidrMaskAnyNumber(mask) == mask # NaN /\ 0 <= mask /\ mask <= Half(128)

\* IPv4CidrMask, IPv6CidrMask: Schema.Int between 0 and the width
IPv4CidrMask(mask) == IsInteger(mask) /\ 0 <= mask /\ mask <= 32
IPv6CidrMask(mask) == IsInteger(mask) /\ 0 <= mask /\ mask <= 128

\* the address of the input as a bigint, with its low bits replaced by fill
MaskedValue(input, parsed) ==
    IF Failed(parsed) THEN parsed
    ELSE [family |-> input.address.family, value |-> parsed.value]

MaskedDecoded(input, fill, bits, decoded) ==
    IF Failed(decoded) THEN decoded
    ELSE MaskedValue(input,
             BigIntParse(Slice(PadStart(BigToString(decoded.value, 2), bits, "0"),
                               0, input.mask)
                             \o Repeat(fill, bits - input.mask),
                         2))

MaskedAsBigint(input, fill) ==
    MaskedDecoded(input, fill, Bits(input.address.family),
                  IF input.address.family = "ipv4"
                  THEN DecodeIPv4Bigint(input.address.ip)
                  ELSE DecodeIPv6Bigint(input.address.ip))

networkAddressAsBigint(input) == MaskedAsBigint(input, "0")

broadcastAddressAsBigint(input) == MaskedAsBigint(input, "1")

\* decodeSync(IPvX)(encodeSync(IPvXBigint)(big))
AddressOfEncoded(family, text) ==
    IF Failed(text) THEN text
    ELSE IF family = "ipv4" THEN IPv4(text.text) ELSE IPv6(text.text)

AddressOfBigint(big) ==
    IF Failed(big) THEN big ELSE AddressOfEncoded(big.family, EncodeBigint(big))

networkAddress(input) == AddressOfBigint(networkAddressAsBigint(input))

broadcastAddress(input) == AddressOfBigint(broadcastAddressAsBigint(input))

\* a total that leaves out the + 1n
TotalBetweenExclusive(minValue, maxValue) ==
    IF Failed(minValue) THEN minValue
    ELSE IF Failed(maxValue) THEN maxValue
    ELSE [value |-> BigSub(maxValue.value, minValue.value)]

\* maxValue - minValue + 1n
TotalBetween(minValue, maxValue) ==
    IF Failed(minValue) THEN minValue
    ELSE IF Failed(maxValue) THEN maxValue
    ELSE [value |-> BigAdd(BigSub(maxValue.value, minValue.value), BigOne)]

total(input) ==
    TotalBetween(networkAddressAsBigint(input), broadcastAddressAsBigint(input))

\* the instance of IPv4CidrBlock or IPv6CidrBlock: the two properties and
\* the fields that the constructor computes from them
CidrBlockFields(a, mask, nab, na, bab, ba, tot) ==
    IF Failed(nab) THEN nab
    ELSE IF Failed(na) THEN na
    ELSE IF Failed(bab) THEN bab
    ELSE IF Failed(ba) THEN ba
    ELSE IF Failed(tot) THEN tot
    ELSE [address |-> a, mask |-> mask,
          networkAddressAsBigint |-> nab, networkAddress |-> na,
          broadcastAddressAsBigint |-> bab, broadcastAddress |-> ba,
          total |-> tot.value]

CidrBlockDerived(a, mask, nab, bab) ==
    CidrBlockFields(a, mask, nab, AddressOfBigint(nab), bab, AddressOfBigint(bab),
                    TotalBetween(nab, bab))

\* an instance that keeps its network address in place of the address given
CidrBlockNormalized(a, mask) ==
    CidrBlockDerived(networkAddress([address |-> a, mask |-> mask]), mask,
                     networkAddressAsBigint([address |-> a, mask |-> mask]),
                     broadcastAddressAsBigint([address |-> a, mask |-> mask]))

CidrBlockInstance(a, mask) ==
    CidrBlockDerived(a, mask,
                     networkAddressAsBigint([address |-> a, mask |-> mask]),
                     broadcastAddressAsBigint([address |-> a, mask |-> mask]))

\* Schema.decodeSync(IPv4CidrBlock)({address: text, mask})
IPv4CidrBlockOf(a, mask) ==
    IF Failed(a) \/ ~IPv4CidrMask(mask) THEN ParseError ELSE CidrBlockInstance(a, mask)

IPv4CidrBlock(text, mask) == IPv4CidrBlockOf(IPv4(text), mask)

\* Schema.decodeSync(IPv6CidrBlock)({address: text, mask})
IPv6CidrBlockOf(a, mask) ==
    IF ~IPv6CidrMask(mask) \/ Failed(a) THEN ParseError ELSE CidrBlockInstance(a, mask)

IPv6CidrBlock(text, mask) == IPv6CidrBlockOf(IPv6(text), mask)

\* Schema.decodeSync(CidrBlock)({address: text, mask}): the union tries the
\* IPv4 class, then the IPv6 class
CidrBlockUnion(b4, b6) == IF b4 # ParseError THEN b4 ELSE b6

CidrBlock(text, mask) ==
    CidrBlockUnion(IPv4CidrBlock(text, mask), IPv6CidrBlock(text, mask))

\* a minimum that never looks past the first element
ArrayMinFirst(acc, rest) == acc

\* Array.min and Array.max under AddressBigintOrder: a reduce from the left
\* that keeps the earlier element on a tie
RECURSIVE ArrayMin(_, _)
ArrayMin(acc, rest) ==
    IF Len(rest) = 0 THEN acc
    ELSE ArrayMin(IF BigLeq(acc.value, rest[1].value) THEN acc ELSE rest[1], Tail(rest))

\* a maximum that never looks past the first element
ArrayMaxFirst(acc, rest) == acc

RECURSIVE ArrayMax(_, _)
ArrayMax(acc, rest) ==
    IF Len(rest) = 0 THEN acc
    ELSE ArrayMax(IF BigLeq(rest[1].value, acc.value) THEN acc ELSE rest[1], Tail(rest))

\* the larger of the two in place of the smaller
MathMax(a, b) == IF a >= b THEN a ELSE b

\* Math.min
MathMin(a, b) == IF a <= b THEN a ELSE b

\* cidrBlockForRange: the inputs as bigints, the smallest and the largest of
\* them, the leading zeros of both, and the block of the smallest under the
\* smaller count
LeadingZeros(bits, v) == bits - Len(BigToString(v.value, 2))

BlockOfEncoded(text, mask) == IF Failed(text) THEN text ELSE CidrBlock(text.text, mask)

\* a block whose address is that of the largest value
BlockOfRangeAtMax(bits, min, max) ==
    BlockOfEncoded(EncodeBigint(max),
                   MathMin(LeadingZeros(bits, min), LeadingZeros(bits, max)))

BlockOfRange(bits, min, max) ==
    BlockOfEncoded(EncodeBigint(min),
                   MathMin(LeadingZeros(bits, min), LeadingZeros(bits, max)))

\* a conversion of the list that gives the block of every address for the
\* empty list
BlockOfBigintsOrAll(list, bigints) ==
    IF \E i \in 1..Len(list) : Failed(bigints[i])
    THEN bigints[CHOOSE i \in 1..Len(list) :
                    Failed(bigints[i]) /\ \A j \in 1..(i - 1) : ~Failed(bigints[j])]
    ELSE IF Len(list) = 0 THEN CidrBlock("0.0.0.0", 0)
    ELSE BlockOfRange(IF list[1].family = "ipv4" THEN 32 ELSE 128,
                      ArrayMin(bigints[1], Tail(bigints)),
                      ArrayMax(bigints[1], Tail(bigints)))

BlockOfBigints(list, bigints) ==
    IF \E i \in 1..Len(list) : Failed(bigints[i])
    THEN bigints[CHOOSE i \in 1..Len(list) :
                    Failed(bigints[i]) /\ \A j \in 1..(i - 1) : ~Failed(bigints[j])]
    ELSE IF Len(list) = 0 THEN [error |-> "TypeError"]
    ELSE BlockOfRange(IF list[1].family = "ipv4" THEN 32 ELSE 128,
                      ArrayMin(bigints[1], Tail(bigints)),
                      ArrayMax(bigints[1], Tail(bigints)))

cidrBlockForRange(list) ==
    BlockOfBigints(list, [i \in 1..Len(list) |-> toBigint(list[i])])

(***************************************************************************)
(* The codecs between texts and values.  The encode of a codec is the      *)
(* encode of its transformation, checked against the schema of the text.   *)
(***************************************************************************)
\* an encode of IPv4 that pads every segment to three digits
IPv4EncodePaddedText(t) == IF IPv4Regex(t) THEN [text |-> t] ELSE ParseError

IPv4EncodePadded(a) ==
    IPv4EncodePaddedText(Join(MapPadStart(Split(a.ip, "."), 3, "0"), "."))

\* an encode of IPv6 that goes through the bigint and so expands the text
IPv6EncodeExpanded(a) == EncodedText(AddressOfBigint(DecodeIPv6Bigint(a.ip)))

\* the encode of IPv4 and of IPv6: ({ ip }) => ip
IPv4Encode(a) == IF IPv4Regex(a.ip) THEN [text |-> a.ip] ELSE ParseError

IPv6Encode(a) == IF IPv6Regex(a.ip) THEN [text |-> a.ip] ELSE ParseError

\* the encode of the union Address: the member of the family of the value
AddressEncode(a) == IF a.family = "ipv4" THEN IPv4Encode(a) ELSE IPv6Encode(a)

\* the pattern of a Schema.Number inside a template literal:
\* [+-]?\d*\.?\d+(?:[Ee][+-]?\d+)?
IsDigits(t) == Len(t) > 0 /\ AllInClass(t, Digits0to9)

IsMantissa(t) ==
    /\ Len(t) > 0
    /\ InClass(CharAt(t, Len(t)), Digits0to9)
    /\ \A i \in 1..Len(t) : CharAt(t, i) = "." \/ InClass(CharAt(t, i), Digits0to9)
    /\ Cardinality({i \in 1..Len(t) : CharAt(t, i) = "."}) <= 1

ExponentAt(t) == FirstOf({i \in 1..Len(t) : CharAt(t, i) \in {"e", "E"}})

IsNumberSplit(t, e) ==
    IF e = 0 THEN IsMantissa(t)
    ELSE IsMantissa(Substr(t, 1, e - 1)) /\ IsDigits(StripSign(Substr(t, e + 1, Len(t))))

IsNumberText(t) == IsNumberSplit(StripSign(t), ExponentAt(StripSign(t)))

\* Schema.TemplateLiteral(Schema.String, Schema.Literal("/"), Schema.Number):
\* any text, a "/", and a number text up to the end
TemplateLiteral(str) ==
    \E i \in 1..Len(str) :
        CharAt(str, i) = "/" /\ IsNumberText(Substr(str, i + 1, Len(str)))

splitLiteral(str, delimiter) == Split(str, delimiter)

\* the decode of the three transformations: the first two pieces of the text
IPv4CidrBlockOfParts(parts) == IPv4CidrBlock(parts[1], ParseInt(parts[2], 10))

IPv6CidrBlockOfParts(parts) == IPv6CidrBlock(parts[1], ParseInt(parts[2], 10))

CidrBlockOfParts(parts) == CidrBlock(parts[1], ParseInt(parts[2], 10))

\* Schema.decode(IPv4CidrBlockFromString)(str) and its two siblings
IPv4CidrBlockFromString(str) ==
    IF TemplateLiteral(str) THEN IPv4CidrBlockOfParts(splitLiteral(str, "/"))
    ELSE ParseError

IPv6CidrBlockFromString(str) ==
    IF TemplateLiteral(str) THEN IPv6CidrBlockOfParts(splitLiteral(str, "/"))
    ELSE ParseError

CidrBlockFromString(str) ==
    IF TemplateLiteral(str) THEN CidrBlockOfParts(splitLiteral(str, "/"))
    ELSE ParseError

\* the encode of the three transformations: `${address}/${mask}` of the
\* encoded fields of the block
CidrText(str) == IF TemplateLiteral(str) THEN [text |-> str] ELSE ParseError

CidrBlockFromStringEncode(b) ==
    CidrText(b.address.ip \o "/" \o NumberToString(b.mask, 10))

\* the codecs by name
Decode(schema, text) ==
    CASE schema = "IPv4" -> IPv4(text)
      [] schema = "IPv6" -> IPv6(text)
      [] schema = "Address" -> Address(text)
      [] schema = "IPv4CidrBlockFromString" -> IPv4CidrBlockFromString(text)
      [] schema = "IPv6CidrBlockFromString" -> IPv6CidrBlockFromString(text)
      [] schema = "CidrBlockFromString" -> CidrBlockFromString(text)

Encode(schema, value) ==
    CASE schema = "IPv4" -> IPv4Encode(value)
      [] schema = "IPv6" -> IPv6Encode(value)
      [] schema = "Address" -> AddressEncode(value)
      [] schema = "IPv4CidrBlockFromString" -> CidrBlockFromStringEncode(value)
      [] schema = "IPv6CidrBlockFromString" -> CidrBlockFromStringEncode(value)
      [] schema = "CidrBlockFromString" -> CidrBlockFromStringEncode(value)

\* the three schemas of a block by name
Construct(schema, text, mask) ==
    CASE schema = "IPv4CidrBlock" -> IPv4CidrBlock(text, mask)
      [] schema = "IPv6CidrBlock" -> IPv6CidrBlock(text, mask)
      [] schema = "CidrBlock" -> CidrBlock(text, mask)

(***************************************************************************)
(* Inputs                                                                  *)
(***************************************************************************)
IPv4Texts ==
    {"0.0.0.0", "0.0.0.1", "1.1.1.1", "192.168.1.0", "192.168.1.3",
     "192.168.1.100", "255.255.255.252", "255.255.255.255"}

IPv6Texts ==
    {"::", "::1", "2001:db8::1", "2001:DB8:0:0:0:0:0:1",
     "2001:0db8:0000:0000:0000:0000:0000:0001",
     "2001:0db8:85a3:0000:0000:8a2e:0370:7334",
     "1:2:3:4:5:6:7::",
     "ffff:ffff:ffff:ffff:ffff:ffff:ffff:fffc",
     "::ffff:192.168.1.1", "::ffff:c0a8:101", "1:2:3:4:5:6:1.2.3.4",
     "fe80::1%eth0", "fe80::%eth0", "ffff::2%a:bcdef1", "1:2:3:4:5:6:7:8%::"}

RejectedTexts ==
    {"", "256.1.1.1", "1.1.1", "1.1.1.1.1", "1.1.a.1", "01.1.1.1",
     "2001::85a3::0000::0370:7334", "2001:0db8:85a3:0000:0000:8a2e:0370:7334:",
     "1:2:3", "12345::", "g::1"}

Texts == IPv4Texts \cup IPv6Texts \cup RejectedTexts

\* every IPv4 mask and its two neighbours, and the IPv6 masks around the
\* 16-bit group boundaries and at the top of the range
Masks ==
    (-1..33) \cup {47, 48, 49, 63, 64, 65, 95, 96, 97, 111, 112, 113} \cup (124..129)

\* the addresses that the lists given to cidrBlockForRange are made of
RangeTexts ==
    {"0.0.0.0", "192.168.1.0", "192.168.1.3", "255.255.255.255",
     "::1", "2001:db8::1", "2001:DB8:0:0:0:0:0:1", "::ffff:192.168.1.1",
     "ffff::2%a:bcdef1", "1:2:3:4:5:6:1.2.3.4"}

\* the longest list given to cidrBlockForRange
MaxInputs == 2

\* the most elements a consumer pulls from one run of range
MaxPull == 4

Addresses == {Address(t) : t \in RangeTexts}

\* the values of the bigints that a caller builds and gives to fromBigint:
\* 0, 1, 0xc0a80101, 2^32 - 1, 2^32, 0x20010db8000000000000000000000001,
\* 2^128 - 1, 2^128, -1, -0x12, -0x1234567 and -(2^112)
DirectValues ==
    {<<>>, <<1>>, <<257, 49320>>, <<65535, 65535>>, <<0, 0, 1>>,
     <<1, 0, 0, 0, 0, 0, 3512, 8193>>,
     <<65535, 65535, 65535, 65535, 65535, 65535, 65535, 65535>>,
     <<0, 0, 0, 0, 0, 0, 0, 0, 1>>,
     <<-1>>, <<-18>>, <<17767, -291>>, <<0, 0, 0, 0, 0, 0, 0, -1>>}

DirectBigints == [family : {"ipv4", "ipv6"}, value : DirectValues]

Lists == UNION {[1..n -> Addresses] : n \in 0..MaxInputs}

\* more texts given to the address codecs: near misses of the IPv4 grammar
\* and texts with more than one "::"
CodecTexts ==
    Texts \cup
    {"00.1.1.1", "1.1.1.256", "1.1.1.001", "1.1.1.1 ", " 1.1.1.1", "1..1.1",
     "+1.1.1.1", "1.1.1.-1", "0x1.1.1.1", "1.1.1.1.", ".1.1.1.1", "300.1.1.1",
     "1.1.1", "1,1,1,1", "10.20.30.40", "199.249.250.255", "99.9.100.0",
     "1::2::3", "::1::", ":::", "1::2:3::", "::1%::", "1::%a::b",
     "fe80::1%::1::", "1:2:3:4:5:6:7:8%a::b::c", "::%eth0", "::1%",
     "1:2:3:4:5:6:7:8"}

AddressCodecs == {"IPv4", "IPv6", "Address"}

\* the texts given to the three FromString codecs
CidrTexts ==
    {"192.168.1.0/24", "2001:db8::/32", "2001:db8::1/64", "::/0", "::1/128",
     "::1/129", "fe80::1%eth0/64", "1.1.1.1/0", "1.1.1.1/32", "1.1.1.1/33",
     "1.1.1.1/128", "1.1.1.1/-1", "1.1.1.1/-0", "1.1.1.1/24.5", "1.1.1.1/1e1",
     "1.1.1.1/1E2", "1.1.1.1/.5", "1.1.1.1/x", "1.1.1.1/", "1.1.1.1", "/24",
     "1.1.1.1/24/5", "1.1.1.1//24", "1.1.1.1/024", "1.1.1.1/+24",
     "1.1.1.1/24abc", "1.1.1.1/ 24", "1.1.1.1/0x10", "256.1.1.1/24",
     "2001:db8::/24.5", "::1/12/8", ""}

FromStringCodecs ==
    {"IPv4CidrBlockFromString", "IPv6CidrBlockFromString", "CidrBlockFromString"}

CodecInputs ==
    [schema : AddressCodecs, text : CodecTexts]
        \cup [schema : FromStringCodecs, text : CidrTexts]

\* the fields given to the three schemas of a block: masks at and next to
\* the ends of the two ranges, NaN, and masks that are no integers
BlockSchemas == {"IPv4CidrBlock", "IPv6CidrBlock", "CidrBlock"}

ConstructTexts ==
    {"1.1.1.1", "192.168.1.0", "192.168.1.100", "2001:db8::1", "::", "256.1.1.1",
     "1:2:3:4:5:6:1.2.3.4", "fe80::%eth0"}

ConstructMasks ==
    {-1, 0, 24, 32, 33, 64, 128, 129, NaN, Half(0), Half(24), Half(32), Half(128)}

(***************************************************************************)
(* The state: the results of the one operation that a behaviour follows.   *)
(* The operations are pure functions of their arguments, so every          *)
(* operation starts from the initial state.                                *)
(***************************************************************************)
Idle == [idle |-> TRUE]

IsIdle(r) == "idle" \in DOMAIN r

Init ==
    /\ address = Idle /\ bigint = Idle /\ encoded = Idle /\ block = Idle
    /\ stream = Idle /\ emitted = <<>> /\ inputs = <<>> /\ result = Idle
    /\ call = Idle /\ other = Idle

\* nothing has been computed yet
Fresh ==
    /\ IsIdle(address) /\ IsIdle(bigint) /\ IsIdle(encoded) /\ IsIdle(block)
    /\ IsIdle(stream) /\ IsIdle(result) /\ emitted = <<>> /\ inputs = <<>>
    /\ IsIdle(call) /\ IsIdle(other)

\* Schema.decode(Address)(text)
DecodeAddress(text) ==
    /\ Fresh
    /\ address' = Address(text)
    /\ bigint' = Idle /\ encoded' = Idle /\ block' = Idle
    /\ stream' = Idle /\ emitted' = <<>> /\ inputs' = <<>> /\ result' = Idle
    /\ call' = Idle /\ other' = Idle

\* Schema.decode(AddressBigint) of the decoded address
ToBigint ==
    /\ ~IsIdle(address) /\ ~Failed(address) /\ IsIdle(bigint)
    /\ bigint' = toBigint(address)
    /\ UNCHANGED <<address, encoded, block, stream, emitted, inputs, result, call, other>>

\* Schema.encode(AddressBigint) of that bigint, decoded as an address
FromBigint ==
    /\ ~IsIdle(bigint) /\ ~Failed(bigint) /\ IsIdle(encoded)
    /\ encoded' = fromBigint(bigint)
    /\ UNCHANGED <<address, bigint, block, stream, emitted, inputs, result, call, other>>

\* Schema.encode(AddressBigint) of a bigint that the caller built, decoded
\* as an address
EncodeBigintValue(big) ==
    /\ Fresh
    /\ call' = [op |-> "fromBigint", big |-> big, result |-> fromBigint(big)]
    /\ UNCHANGED <<address, bigint, encoded, block, stream, emitted, inputs, result,
                   other>>

\* Schema.decode of a codec on a text
DecodeText(schema, text) ==
    /\ Fresh
    /\ call' = [op |-> schema, text |-> text, result |-> Decode(schema, text),
                encoded |-> Idle]
    /\ UNCHANGED <<address, bigint, encoded, block, stream, emitted, inputs, result,
                   other>>

\* Schema.encode of the same codec on the decoded value
EncodeValue ==
    /\ ~IsIdle(call) /\ call.op \in AddressCodecs \cup FromStringCodecs
    /\ ~Failed(call.result) /\ IsIdle(call.encoded)
    /\ call' = [call EXCEPT !.encoded = Encode(call.op, call.result)]
    /\ UNCHANGED <<address, bigint, encoded, block, stream, emitted, inputs, result,
                   other>>

\* Schema.decodeSync of one of the schemas of a block on {address: text, mask}
ConstructBlock(schema, text, mask) ==
    /\ Fresh
    /\ call' = [op |-> schema, address |-> text, mask |-> mask,
                result |-> Construct(schema, text, mask)]
    /\ UNCHANGED <<address, bigint, encoded, block, stream, emitted, inputs, result,
                   other>>

\* Schema.decodeSync(CidrBlock)({address: text, mask})
NewCidrBlock(text, mask) ==
    /\ Fresh
    /\ block' = CidrBlock(text, mask)
    /\ address' = Idle /\ bigint' = Idle /\ encoded' = Idle
    /\ stream' = Idle /\ emitted' = <<>> /\ inputs' = <<>> /\ result' = Idle
    /\ call' = Idle /\ other' = Idle

\* a step that skips every other value
IterateByTwo(x) == BigAdd(x, <<2>>)

\* the step of Stream.iterate and the test of Stream.takeWhile
Iterate(x) == BigAdd(x, BigOne)

\* a test that ends the run one value early
TakeWhileBelow(n, maxValue) == ~BigLeq(maxValue, n)

TakeWhile(n, maxValue) == BigLeq(n, maxValue)

\* a consumer starts a run of block.range: Stream.iterate(minValue, ...)
RangeRun ==
    /\ ~IsIdle(block) /\ ~Failed(block) /\ IsIdle(stream)
    /\ stream' = [family |-> block.address.family,
                  next |-> block.networkAddressAsBigint.value,
                  maxValue |-> block.broadcastAddressAsBigint.value,
                  status |-> "running"]
    /\ emitted' = <<>>
    /\ UNCHANGED <<address, bigint, encoded, block, inputs, result, call, other>>

\* the consumer pulls once: takeWhile, then encode and decode of the value
RangePull ==
    /\ ~IsIdle(stream) /\ stream.status = "running"
    /\ Len(emitted) < MaxPull \/ ~TakeWhile(stream.next, stream.maxValue)
    /\ IF ~TakeWhile(stream.next, stream.maxValue)
       THEN /\ stream' = [stream EXCEPT !.status = "done"]
            /\ emitted' = emitted
       ELSE IF Failed(AddressOfBigint([family |-> stream.family, value |-> stream.next]))
       THEN /\ stream' = [stream EXCEPT !.status = "failed"]
            /\ emitted' = emitted
       ELSE /\ stream' = [stream EXCEPT !.next = Iterate(stream.next)]
            /\ emitted' = Append(emitted,
                   AddressOfBigint([family |-> stream.family, value |-> stream.next]))
    /\ UNCHANGED <<address, bigint, encoded, block, inputs, result, call, other>>

\* a run that shares the cursor of the run already started on the block
RunFromCursor(b) ==
    [family |-> b.address.family,
     next |-> IF IsIdle(stream) THEN b.networkAddressAsBigint.value ELSE stream.next,
     maxValue |-> b.broadcastAddressAsBigint.value,
     status |-> "running", emitted |-> <<>>]

\* a run of range: the cursor of Stream.iterate and what its consumer has
Run(b) ==
    [family |-> b.address.family,
     next |-> b.networkAddressAsBigint.value,
     maxValue |-> b.broadcastAddressAsBigint.value,
     status |-> "running", emitted |-> <<>>]

\* one pull from a run: takeWhile, then encode and decode of the value
Pulled(run, a) ==
    IF ~TakeWhile(run.next, run.maxValue) THEN [run EXCEPT !.status = "done"]
    ELSE IF Failed(a) THEN [run EXCEPT !.status = "failed"]
    ELSE [run EXCEPT !.next = Iterate(run.next), !.emitted = Append(run.emitted, a)]

PullOf(run) == Pulled(run, AddressOfBigint([family |-> run.family, value |-> run.next]))

\* a second consumer starts a run of block.range of its own, on a block
\* whose whole range a consumer pulls
OtherRun ==
    /\ ~IsIdle(block) /\ ~Failed(block) /\ IsIdle(other)
    /\ BigLeq(block.total, IF MaxPull = 0 THEN <<>> ELSE <<MaxPull>>)
    /\ other' = Run(block)
    /\ UNCHANGED <<address, bigint, encoded, block, stream, emitted, inputs, result, call>>

\* the second consumer pulls once
OtherPull ==
    /\ ~IsIdle(other) /\ other.status = "running"
    /\ other' = PullOf(other)
    /\ UNCHANGED <<address, bigint, encoded, block, stream, emitted, inputs, result, call>>

\* cidrBlockForRange(list)
CidrBlockForRange(list) ==
    /\ Fresh
    /\ inputs' = list
    /\ result' = cidrBlockForRange(list)
    /\ address' = Idle /\ bigint' = Idle /\ encoded' = Idle /\ block' = Idle
    /\ stream' = Idle /\ emitted' = <<>> /\ call' = Idle
    /\ other' = Idle

Next ==
    \/ \E text \in Texts : DecodeAddress(text)
    \/ ToBigint
    \/ FromBigint
    \/ \E big \in DirectBigints : EncodeBigintValue(big)
    \/ \E in \in CodecInputs : DecodeText(in.schema, in.text)
    \/ EncodeValue
    \/ \E schema \in BlockSchemas, text \in ConstructTexts, mask \in ConstructMasks :
           ConstructBlock(schema, text, mask)
    \/ \E text \in Texts, mask \in Masks : NewCidrBlock(text, mask)
    \/ RangeRun
    \/ RangePull
    \/ OtherRun
    \/ OtherPull
    \/ \E list \in Lists : CidrBlockForRange(list)

Spec == Init /\ [][Next]_vars

\* the guard of RangePull; a pull under it changes stream, so it is
\* ENABLED <<RangePull>>_vars
PullEnabled ==
    /\ ~IsIdle(stream) /\ stream.status = "running"
    /\ Len(emitted) < MaxPull \/ ~TakeWhile(stream.next, stream.maxValue)

\* the behaviours in which the consumer of a run keeps pulling while the
\* run has not ended and the consumer has not yet pulled MaxPull elements:
\* weak fairness of RangePull, WF_vars(RangePull), with its ENABLED written
\* as PullEnabled
FairSpec == Spec /\ ([]<>~PullEnabled \/ []<><<RangePull>>_vars)

(***************************************************************************)
(* Arithmetic in which the properties are stated: powers of two, floors    *)
(* and bit lengths computed on the limbs, never through a digit text.      *)
(***************************************************************************)
RECURSIVE Pow2(_)
Pow2(r) == IF r = 0 THEN 1 ELSE 2 * Pow2(r - 1)

\* floor(v / 2^k)
BigShiftRight(v, k) ==
    LET q == k \div 16
    IN  IF q >= Len(v) THEN <<>>
        ELSE BigDiv(SubSeq(v, q + 1, Len(v)), Pow2(k % 16))

\* v * 2^k
BigShiftLeft(v, k) ==
    BigNorm([i \in 1..(k \div 16) |-> 0] \o BigMulAdd(v, Pow2(k % 16), 0))

BigPow2(k) == BigShiftLeft(BigOne, k)

BigOfNat(n) == IF n = 0 THEN <<>> ELSE <<n>>

\* the number of binary digits of v, one for zero
BitLength(v) ==
    IF Len(v) = 0 THEN 1
    ELSE 16 * (Len(v) - 1)
         + (CHOOSE k \in 1..16 : Pow2(k - 1) <= v[Len(v)] /\ v[Len(v)] < Pow2(k))

IsBlock(b) == ~IsIdle(b) /\ ~Failed(b)

\* the operation op has been called
Called(op) == ~IsIdle(call) /\ call.op = op

ValueOf(a) == toBigint(a).value

HostBits(b) == Bits(b.address.family) - b.mask

(***************************************************************************)
(* Properties of the derived addresses of a block                          *)
(***************************************************************************)
\* C1: the network address of every block has the value
\* floor(v / 2^(bits - mask)) * 2^(bits - mask), v the value of its address
NetworkAddressClearsLowBits ==
    IsBlock(block) =>
        ValueOf(block.networkAddress)
            = BigShiftLeft(BigShiftRight(ValueOf(block.address), HostBits(block)),
                           HostBits(block))

\* C2: the broadcast address of every block has the value of its address
\* with the low bits - mask bits set: the network value + 2^(bits - mask) - 1
BroadcastAddressSetsLowBits ==
    IsBlock(block) =>
        ValueOf(block.broadcastAddress)
            = BigSub(BigAdd(BigShiftLeft(BigShiftRight(ValueOf(block.address),
                                                       HostBits(block)),
                                         HostBits(block)),
                            BigPow2(HostBits(block))),
                     BigOne)

\* C3: the total of every block is 2^(bits - mask), at least 1; it is 1 when
\* mask = bits and 2^bits when mask = 0
TotalIsPowerOfTwo ==
    IsBlock(block) =>
        /\ block.total = BigPow2(HostBits(block))
        /\ BigLeq(BigOne, block.total)
        /\ block.total = BigAdd(BigSub(block.broadcastAddressAsBigint.value,
                                       block.networkAddressAsBigint.value), BigOne)
        /\ (HostBits(block) = 0 => block.total = <<1>>)
        /\ (block.mask = 0 /\ block.address.family = "ipv4" => block.total = <<0, 0, 1>>)
        /\ (block.mask = 0 /\ block.address.family = "ipv6"
                => block.total = <<0, 0, 0, 0, 0, 0, 0, 0, 1>>)

TotalOfWholeSpace ==
    IsBlock(block) /\ block.mask = 0 /\ block.address.family = "ipv6"

\* C4: a run of range consumed to its end yields the network address, then
\* each value one more than the one before it, ends with the broadcast
\* address and has total(block) elements
RangeIsAscending ==
    ~IsIdle(stream) =>
        /\ stream.status # "failed"
        /\ \A i \in 1..Len(emitted) :
              /\ emitted[i].family = block.address.family
              /\ ValueOf(emitted[i])
                    = BigAdd(ValueOf(block.networkAddress), BigOfNat(i - 1))
        /\ stream.status = "done" =>
              /\ Len(emitted) >= 1
              /\ emitted[1] = block.networkAddress
              /\ emitted[Len(emitted)] = block.broadcastAddress
              /\ BigOfNat(Len(emitted)) = block.total

RangeOfFourConsumed ==
    /\ ~IsIdle(stream) /\ stream.status = "done"
    /\ block.address.ip = "192.168.1.0" /\ block.mask = 30
    /\ Len(emitted) = 4
    /\ emitted[4].ip = "192.168.1.3"

(***************************************************************************)
(* Properties of cidrBlockForRange                                         *)
(***************************************************************************)
SameFamily(list) ==
    Len(list) >= 1 /\ \A i \in 1..Len(list) : list[i].family = list[1].family

Returned == SameFamily(inputs) /\ IsBlock(result)

InputValues == {ValueOf(inputs[i]) : i \in 1..Len(inputs)}

MinValue == CHOOSE v \in InputValues : \A w \in InputValues : BigLeq(v, w)

MaxValue == CHOOSE v \in InputValues : \A w \in InputValues : BigLeq(w, v)

\* C5: the block returned for a list of addresses of one family contains
\* every address of the list
RangeBlockContainsInputs ==
    Returned =>
        \A i \in 1..Len(inputs) :
            /\ BigLeq(ValueOf(result.networkAddress), ValueOf(inputs[i]))
            /\ BigLeq(ValueOf(inputs[i]), ValueOf(result.broadcastAddress))

RangeBlockOfTwo ==
    /\ Returned
    /\ Len(inputs) = 2
    /\ inputs[1].ip = "192.168.1.3" /\ inputs[2].ip = "192.168.1.0"

\* C6: the block returned is the smallest one that contains the addresses:
\* no larger mask of the family has a block that contains them all, that is,
\* the smallest and the largest value differ above every larger mask
RangeBlockIsSmallest ==
    Returned =>
        \A m \in (result.mask + 1)..Bits(inputs[1].family) :
            BigShiftRight(MinValue, Bits(inputs[1].family) - m)
                # BigShiftRight(MaxValue, Bits(inputs[1].family) - m)

LowerHexChars == CharsOf("0123456789abcdef")

\* eight groups of four lowercase hexadecimal digits
IsExpandedIPv6(t) ==
    LET parts == Split(t, ":")
    IN  /\ Len(parts) = 8
        /\ \A i \in 1..8 : Len(parts[i]) = 4 /\ AllInClass(parts[i], LowerHexChars)

DecimalOctet(t) ==
    CHOOSE n \in 0..999 :
        \E h \in 0..9, m \in 0..9, u \in 0..9 :
            /\ n = 100 * h + 10 * m + u
            /\ t = (IF h = 0 THEN "" ELSE CharAt("0123456789", h + 1))
                   \o (IF h = 0 /\ m = 0 THEN "" ELSE CharAt("0123456789", m + 1))
                   \o CharAt("0123456789", u + 1)

\* C9: the bigint of the IPv4 text o1.o2.o3.o4 is of family ipv4 and has the
\* value o1 * 2^24 + o2 * 2^16 + o3 * 2^8 + o4, within [0, 2^32 - 1]
IPv4ValueIsBigEndian ==
    (~IsIdle(bigint) /\ address.family = "ipv4") =>
        LET o == [i \in 1..4 |-> DecimalOctet(Split(address.ip, ".")[i])]
        IN  /\ ~Failed(bigint)
            /\ bigint.family = "ipv4"
            /\ bigint.value = BigNorm(<<o[3] * 256 + o[4], o[1] * 256 + o[2]>>)
            /\ BigLeq(bigint.value, <<65535, 65535>>)
            /\ (address.ip = "0.0.0.1" => bigint.value = <<1>>)
            /\ (address.ip = "255.255.255.255" => bigint.value = <<65535, 65535>>)

IPv4ValueOfAllOnes ==
    /\ ~IsIdle(bigint) /\ address.ip = "255.255.255.255"
    /\ bigint.value = <<65535, 65535>>

\* a text of hexadecimal groups and colons only: no zone, no dotted tail
IsPureHex(t) == AllInClass(t, HexChars \cup {":"})

\* the number that a group of hexadecimal digits denotes
GroupValue(g) ==
    LET d(i) == DigitTable[CharAt(g, i)]
        n    == Len(g)
    IN  IF n = 1 THEN d(1)
        ELSE IF n = 2 THEN 16 * d(1) + d(2)
        ELSE IF n = 3 THEN 256 * d(1) + 16 * d(2) + d(3)
        ELSE 4096 * d(1) + 256 * d(2) + 16 * d(3) + d(4)

\* the eight group values of a pure-hex IPv6 text: the groups written before
\* the "::", as many zeros as make eight, the groups written after it
ExpandedGroups(t) ==
    LET parts   == Split(t, ":")
        written == {i \in 1..Len(parts) : parts[i] # ""}
        gap     == IF \E i \in 1..Len(parts) : parts[i] = ""
                   THEN CHOOSE i \in 1..Len(parts) :
                            parts[i] = "" /\ \A j \in 1..(i - 1) : parts[j] # ""
                   ELSE Len(parts) + 1
        before  == Cardinality({i \in written : i < gap})
        zeros   == 8 - Cardinality(written)
        nth(k)  == CHOOSE i \in written : Cardinality({j \in written : j <= i}) = k
    IN  [k \in 1..8 |->
            IF k <= before THEN GroupValue(parts[nth(k)])
            ELSE IF k <= before + zeros THEN 0
            ELSE GroupValue(parts[nth(k - zeros)])]

\* C10: the bigint of a pure-hex IPv6 text has the value of its eight groups
\* after "::" is expanded to 8 - (head + tail) zero groups, whatever the
\* case and the leading zeros of the groups: "::1" is 1 and "::" is 0
IPv6ValueIsExpandedGroups ==
    (~IsIdle(bigint) /\ address.family = "ipv6" /\ IsPureHex(address.ip)) =>
        LET g == ExpandedGroups(address.ip)
        IN  /\ ~Failed(bigint)
            /\ bigint.family = "ipv6"
            /\ bigint.value = BigNorm([i \in 1..8 |-> g[9 - i]])
            /\ (address.ip = "::1" => bigint.value = <<1>>)
            /\ (address.ip = "::" => bigint.value = <<>>)
            /\ (address.ip \in {"2001:db8::1", "2001:DB8:0:0:0:0:0:1"}
                    => bigint.value = ValueOf(IPv6("2001:0db8:0000:0000:0000:0000:0000:0001")))

IPv6ValueOfCompressed ==
    /\ ~IsIdle(bigint) /\ address.ip = "2001:db8::1"
    /\ bigint.value = <<1, 0, 0, 0, 0, 0, 3512, 8193>>

(***************************************************************************)
(* Properties of the texts that fromBigint returns                         *)
(***************************************************************************)
\* a bigint value within [0, 2^bits - 1]
InRange(big) ==
    ~BigIsNegative(big.value) /\ Len(big.value) <= Bits(big.family) \div 16

\* C11: fromBigint of an IPv6 value within [0, 2^128 - 1] returns an address
\* of eight groups of four lowercase hexadecimal digits that decodeIPv6
\* accepts and that has that value; the network address, the broadcast
\* address and the range elements of every IPv6 block have this form
FromBigintIsExpanded ==
    /\ (Called("fromBigint") /\ call.big.family = "ipv6" /\ InRange(call.big)) =>
            /\ ~Failed(call.result)
            /\ call.result.family = "ipv6"
            /\ IsExpandedIPv6(call.result.ip)
            /\ IPv6(call.result.ip) = call.result
            /\ ValueOf(call.result) = call.big.value
    /\ (IsBlock(block) /\ block.address.family = "ipv6") =>
            /\ IsExpandedIPv6(block.networkAddress.ip)
            /\ IsExpandedIPv6(block.broadcastAddress.ip)
            /\ (block.address.ip = "2001:db8::1" /\ block.mask = 64
                    => block.networkAddress.ip
                           = "2001:0db8:0000:0000:0000:0000:0000:0000")
            /\ \A i \in 1..Len(emitted) : IsExpandedIPv6(emitted[i].ip)

FromBigintOfOne ==
    /\ Called("fromBigint")
    /\ call.big = [family |-> "ipv6", value |-> <<1>>]
    /\ call.result.ip = "0000:0000:0000:0000:0000:0000:0000:0001"

CalledIn(ops) == ~IsIdle(call) /\ call.op \in ops

RECURSIVE Numeral(_)
Numeral(n) ==
    IF n < 10 THEN SubSeq("0123456789", n + 1, n + 1)
    ELSE Numeral(n \div 10) \o SubSeq("0123456789", (n % 10) + 1, (n % 10) + 1)

\* four numerals of 0..255 with a dot between each two
IsDottedQuad(t) ==
    LET parts == Split(t, ".")
    IN  Len(parts) = 4 /\ \A i \in 1..4 : \E n \in 0..255 : parts[i] = Numeral(n)

\* C13: decodeIPv4 accepts a text exactly when it is four decimal segments
\* separated by dots, each the numeral of a number 0..255 without leading
\* zeros, and then gives the text with the tag ipv4
DecodeIPv4AcceptsDottedQuads ==
    Called("IPv4") =>
        /\ ~Failed(call.result) <=> IsDottedQuad(call.text)
        /\ ~Failed(call.result) => call.result = [family |-> "ipv4", ip |-> call.text]

\* decodeIPv4 accepted a text with segments of three shapes
DecodeIPv4Accepted == Called("IPv4") /\ call.text = "199.249.250.255" /\ ~Failed(call.result)

\* the number of places of t at which "::" stands
DoubleColons(t) == Cardinality({i \in 1..(Len(t) - 1) : SubSeq(t, i, i + 1) = "::"})

\* t up to its first "%"
BeforeZone(t) ==
    IF IndexOf(t, "%", 1) = 0 THEN t ELSE Substr(t, 1, IndexOf(t, "%", 1) - 1)

\* C14 as stated: decodeIPv6 rejects every text in which "::" stands more
\* than once, also when the second "::" is inside the zone id
RejectsRepeatedCompression ==
    (Called("IPv6") /\ DoubleColons(call.text) > 1) => Failed(call.result)

\* C14 amended: decodeIPv6 rejects every text in which "::" stands more than
\* once before the zone id; a "::" inside the zone id is no reason to reject,
\* so ::1%:: and 1::%a::b are accepted
RejectsRepeatedCompressionBeforeZone ==
    /\ (Called("IPv6") /\ DoubleColons(BeforeZone(call.text)) > 1) => Failed(call.result)
    /\ (Called("IPv6") /\ call.text \in {"::1%::", "1::%a::b", "fe80::1%::1::"})
          => call.result = [family |-> "ipv6", ip |-> call.text]

\* decodeIPv6 was given a text with three "::" and failed
RepeatedCompressionRejected ==
    Called("IPv6") /\ call.text = "2001::85a3::0000::0370:7334" /\ Failed(call.result)

\* the codec has decoded a text and encoded the value again
Encoded(op) == Called(op) /\ ~Failed(call.result) /\ ~IsIdle(call.encoded)

\* C15: decodeIPv4 and decodeIPv6 give the text unchanged with the tag of
\* the family; the encode of a decoded IPv4 text, and of a decoded IPv6 text
\* without "::", is the text
AddressCodecRoundTrip ==
    /\ (Called("IPv4") /\ ~Failed(call.result))
          => call.result = [family |-> "ipv4", ip |-> call.text]
    /\ (Called("IPv6") /\ ~Failed(call.result))
          => call.result = [family |-> "ipv6", ip |-> call.text]
    /\ Encoded("IPv4") => call.encoded = [text |-> call.text]
    /\ (Encoded("IPv6") /\ DoubleColons(call.text) = 0)
          => call.encoded = [text |-> call.text]

\* an IPv6 text without "::" and with uppercase digits and short groups was
\* decoded and encoded
UncompressedEncoded ==
    Encoded("IPv6") /\ call.text = "2001:DB8:0:0:0:0:0:1" /\ ~Failed(call.encoded)

\* C16 as stated: the encode of a decoded IPv6 text with "::" is the text
\* expanded to eight groups of four digits, without "::"
CompressedEncodesExpanded ==
    (Encoded("IPv6") /\ DoubleColons(call.text) > 0)
        => /\ ~Failed(call.encoded)
           /\ IsExpandedIPv6(call.encoded.text)
           /\ DoubleColons(call.encoded.text) = 0

\* C16 as amended: the encode of a decoded IPv6 text with "::" is the text
\* itself, with its "::"
CompressedEncodesUnchanged ==
    (Encoded("IPv6") /\ DoubleColons(call.text) > 0)
        => /\ call.encoded = [text |-> call.text]
           /\ DoubleColons(call.encoded.text) > 0

\* a compressed IPv6 text was decoded and encoded
CompressedEncoded ==
    Encoded("IPv6") /\ call.text = "2001:db8::1" /\ ~Failed(call.encoded)

\* the number that a text of decimal digits stands for, leading zeros allowed
DecimalValue(t) == CHOOSE n \in 0..999 : PadStart(Numeral(n), Len(t), "0") = t

IsDecimal(t) ==
    Len(t) \in 1..3 /\ \A i \in 1..Len(t) : \E d \in 0..9 : CharAt(t, i) = Numeral(d)

\* C17: a FromString decoder accepts a text only when it has one "/" with a
\* mask of decimal digits after it, and then the mask of the block is the
\* number that these digits stand for and its address the text before the "/"
FromStringAcceptsOnlyIntegerMasks ==
    (CalledIn(FromStringCodecs) /\ ~Failed(call.result))
        => LET parts == Split(call.text, "/")
           IN  /\ Len(parts) = 2
               /\ IsDecimal(parts[2])
               /\ call.result.mask = DecimalValue(parts[2])
               /\ call.result.address.ip = parts[1]

\* C18: the encode of the block decoded from a text by IPv4CidrBlockFromString
\* or IPv6CidrBlockFromString is the text, and the address and the mask of
\* the block are the parts of the text before and after its "/"
CidrTextRoundTrip ==
    \A op \in {"IPv4CidrBlockFromString", "IPv6CidrBlockFromString"} :
        Encoded(op)
            => /\ call.encoded = [text |-> call.text]
               /\ call.text = call.result.address.ip \o "/" \o Numeral(call.result.mask)

\* the list holds an address of each family
Mixed(list) == \E i, j \in 1..Len(list) : list[i].family # list[j].family

\* C19: cidrBlockForRange fails for every list that holds an IPv4 and an
\* IPv6 address, in either order
RangeRejectsMixedFamilies == (~IsIdle(result) /\ Mixed(inputs)) => Failed(result)

\* C20: fromBigint fails for a value that is negative or above 2^32 - 1 for
\* IPv4, 2^128 - 1 for IPv6
FromBigintRejectsOutOfRange ==
    (Called("fromBigint") /\ ~InRange(call.big)) => Failed(call.result)

(***************************************************************************)
(* Properties of the bigint of every accepted text                         *)
(***************************************************************************)
\* an IPv6 text that ends in a dotted IPv4 tail and has no zone id
HasDottedTail(t) == IndexOf(t, ".", 1) # 0 /\ IndexOf(t, "%", 1) = 0

\* the hexadecimal numeral of a number below 65536
RECURSIVE HexNumeral(_)
HexNumeral(n) ==
    IF n < 16 THEN SubSeq("0123456789abcdef", n + 1, n + 1)
    ELSE HexNumeral(n \div 16) \o SubSeq("0123456789abcdef", (n % 16) + 1, (n % 16) + 1)

\* the text with its dotted tail o1.o2.o3.o4 written as the two groups
\* hex(o1 * 256 + o2):hex(o3 * 256 + o4)
PureHexSpelling(t) ==
    LET colons == {i \in 1..Len(t) : CharAt(t, i) = ":"}
        last   == CHOOSE i \in colons : \A j \in colons : j <= i
        o      == [i \in 1..4 |-> DecimalOctet(Split(Substr(t, last + 1, Len(t)), ".")[i])]
    IN  Substr(t, 1, last) \o HexNumeral(o[1] * 256 + o[2]) \o ":"
            \o HexNumeral(o[3] * 256 + o[4])

\* C21: the bigint of an accepted IPv6 text with a dotted IPv4 tail has the
\* value of the tail in its low 32 bits and the hex groups above them: it is
\* the value of the pure-hex spelling of the text
DottedTailValue ==
    (~IsIdle(bigint) /\ address.family = "ipv6" /\ HasDottedTail(address.ip)) =>
        LET g == ExpandedGroups(PureHexSpelling(address.ip))
        IN  /\ ~Failed(bigint)
            /\ bigint.value = BigNorm([i \in 1..8 |-> g[9 - i]])
            /\ (address.ip = "::ffff:192.168.1.1" => bigint.value = <<257, 49320, 65535>>)

(***************************************************************************)
(* Properties of the fields of a block                                     *)
(***************************************************************************)
\* a block has the fields it was constructed with
ConstructedAsGiven ==
    /\ (CalledIn(BlockSchemas) /\ ~Failed(call.result))
          => /\ call.result.address.ip = call.address
             /\ call.result.address.family \in {"ipv4", "ipv6"}
             /\ call.result.mask = call.mask
             /\ ((call.address = "192.168.1.100" /\ call.mask = 24)
                   => call.result.networkAddress.ip = "192.168.1.0")
    /\ (IsBlock(block) => block = CidrBlock(block.address.ip, block.mask))

\* C22: a block has the address and the mask it was constructed with, also
\* when the address is not its network address (192.168.1.100/24 keeps
\* 192.168.1.100 and has the network address 192.168.1.0), and a run of
\* range and its pulls leave the block as it was
BlockKeepsAddress ==
    []ConstructedAsGiven /\ [][IsBlock(block) => block' = block]_vars

\* elements of the range of 192.168.1.100/24 were pulled, and the block
\* still has the address 192.168.1.100
BlockKeptAfterPull ==
    /\ IsBlock(block) /\ block.address.ip = "192.168.1.100" /\ block.mask = 24
    /\ block.networkAddress.ip = "192.168.1.0"
    /\ Len(emitted) = 2

(***************************************************************************)
(* Properties of the address of the block of a list                        *)
(***************************************************************************)
\* C23 as stated: the address of the block returned for a list of one
\* family is the text of an input of the smallest value, as it was given
RangeAddressIsMinimumText ==
    Returned =>
        \E i \in 1..Len(inputs) :
            ValueOf(inputs[i]) = MinValue /\ result.address.ip = inputs[i].ip

\* C23 as amended: the address of the block returned is the address that
\* fromBigint gives for the smallest value of the inputs; for IPv4 it is the
\* text of an input of that value, for IPv6 it is eight groups of four
\* lowercase digits whatever the text of that input
RangeAddressIsEncodedMinimum ==
    Returned =>
        /\ result.address = fromBigint([family |-> inputs[1].family, value |-> MinValue])
        /\ inputs[1].family = "ipv4"
              => \E i \in 1..Len(inputs) :
                     ValueOf(inputs[i]) = MinValue /\ result.address.ip = inputs[i].ip
        /\ inputs[1].family = "ipv6" => IsExpandedIPv6(result.address.ip)

\* the block of the list of ::1 alone has the expanded address
RangeOfCompressedReturned ==
    /\ Returned /\ inputs = <<IPv6("::1")>>
    /\ result.address.ip = "0000:0000:0000:0000:0000:0000:0000:0001"

\* C24: cidrBlockForRange of the empty list fails
RangeOfNothingFails == (~IsIdle(result) /\ Len(inputs) = 0) => Failed(result)

\* cidrBlockForRange was called with the empty list and threw
RangeOfNothingThrew ==
    ~IsIdle(result) /\ Len(inputs) = 0 /\ result = [error |-> "TypeError"]

(***************************************************************************)
(* Properties of the end of a run of range                                 *)
(***************************************************************************)
\* the consumer has the first Len(emitted) addresses of the block, never
\* more than total, and exactly total when the run has ended
PulledIsPrefix ==
    ~IsIdle(stream) =>
        /\ stream.status \in {"running", "done"}
        /\ BigLeq(BigOfNat(Len(emitted)), block.total)
        /\ \A k \in 1..Len(emitted) :
              emitted[k] = AddressOfBigint(
                  [family |-> block.address.family,
                   value |-> BigAdd(block.networkAddressAsBigint.value, BigOfNat(k - 1))])
        /\ stream.status = "done"
              => /\ BigOfNat(Len(emitted)) = block.total
                 /\ stream.next = BigAdd(block.broadcastAddressAsBigint.value, BigOne)

\* C25: a consumer that keeps pulling from a run of range reaches the end of
\* the run after exactly total elements, also when the last value is
\* 2^bits - 1, and a consumer that has pulled k elements has the first k
\* addresses of the block
RangeTerminates ==
    /\ []PulledIsPrefix
    /\ (~IsIdle(stream) /\ BigLeq(block.total, BigOfNat(MaxPull)))
          ~> (~IsIdle(stream) /\ stream.status = "done"
                /\ BigOfNat(Len(emitted)) = block.total)

\* the run over the last four IPv4 addresses has ended at 255.255.255.255
RangeEndedAtTop ==
    /\ ~IsIdle(stream) /\ stream.status = "done"
    /\ block.address.ip = "255.255.255.252" /\ block.mask = 30
    /\ Len(emitted) = 4 /\ emitted[4].ip = "255.255.255.255"

(***************************************************************************)
(* Two consumers of range on one block                                     *)
(***************************************************************************)
\* seq is the first Len(seq) addresses of the block, in ascending order
IsPrefixOfRange(seq) ==
    /\ BigLeq(BigOfNat(Len(seq)), block.total)
    /\ \A k \in 1..Len(seq) :
          seq[k] = AddressOfBigint(
              [family |-> block.address.family,
               value |-> BigAdd(block.networkAddressAsBigint.value, BigOfNat(k - 1))])

\* seq is every address of the block, from networkAddress to broadcastAddress
IsWholeRange(seq) ==
    /\ IsPrefixOfRange(seq)
    /\ BigOfNat(Len(seq)) = block.total
    /\ seq[1] = block.networkAddress
    /\ seq[Len(seq)] = block.broadcastAddress

\* C26: when two consumers pull from two runs of range on one block, in any
\* interleaving, each run starts at the network address, each consumer has
\* the addresses of the block in ascending order, and a consumer whose run
\* has ended has all of them from networkAddress to broadcastAddress,
\* wherever the other consumer is
RunsAreIndependent ==
    /\ ~IsIdle(other) =>
          /\ other.status \in {"running", "done"}
          /\ IsPrefixOfRange(other.emitted)
          /\ other.next = BigAdd(block.networkAddressAsBigint.value,
                                 BigOfNat(Len(other.emitted)))
          /\ other.status = "done" => IsWholeRange(other.emitted)
    /\ (~IsIdle(other) /\ ~IsIdle(stream)) =>
          /\ stream.status \in {"running", "done"}
          /\ IsPrefixOfRange(emitted)
          /\ stream.next = BigAdd(block.networkAddressAsBigint.value,
                                  BigOfNat(Len(emitted)))
          /\ stream.status = "done" => IsWholeRange(emitted)

\* one consumer has ended its run with all four addresses of a /30 block
\* while the other, started later, has pulled one
RunsInterleaved ==
    /\ ~IsIdle(stream) /\ ~IsIdle(other)
    /\ stream.status = "done" /\ Len(emitted) = 4
    /\ other.status = "running" /\ Len(other.emitted) = 1
    /\ other.emitted[1] = emitted[1]

(***************************************************************************)
(* toBigint on every accepted address                                      *)
(***************************************************************************)
\* the mask is one that the schema of the family of a accepts
MaskOfFamily(a, mask) ==
    IF a.family = "ipv4" THEN IPv4CidrMask(mask) ELSE IPv6CidrMask(mask)

\* C27: toBigint of an address that decodeIPv4 or decodeIPv6 accepted gives
\* an AddressBigint, also for an IPv6 text with a zone id or with a dotted
\* IPv4 tail, and an accepted address with a mask in the range of its family
\* constructs a block
ToBigintIsTotal ==
    /\ (~IsIdle(address) /\ ~Failed(address) /\ ~IsIdle(bigint)) => ~Failed(bigint)
    /\ (CalledIn({"CidrBlock"}) /\ ~Failed(Address(call.address))
           /\ MaskOfFamily(Address(call.address), call.mask))
          => ~Failed(call.result)

(***************************************************************************)
(* fromBigint and toBigint on the values of a family                       *)
(***************************************************************************)
\* the address has the grammar of its family
AcceptedByFamily(a) ==
    IF a.family = "ipv4" THEN IPv4(a.ip) = a ELSE IPv6(a.ip) = a

\* C28: fromBigint of a value v within [0, 2^bits - 1] of either family
\* succeeds, its text is accepted by the grammar of the family, toBigint of
\* it is v again, and no other value within the range gives the same
\* address; the same holds of the value that toBigint gave for an address
FromBigintRoundTrip ==
    /\ (Called("fromBigint") /\ InRange(call.big)) =>
          /\ ~Failed(call.result)
          /\ call.result.family = call.big.family
          /\ AcceptedByFamily(call.result)
          /\ toBigint(call.result) = call.big
          /\ \A b \in DirectBigints :
                (InRange(b) /\ b.family = call.big.family
                    /\ fromBigint(b) = call.result) => b = call.big
    /\ (~IsIdle(bigint) /\ ~Failed(bigint) /\ InRange(bigint) /\ ~IsIdle(encoded)) =>
          /\ ~Failed(encoded)
          /\ AcceptedByFamily(encoded)
          /\ toBigint(encoded) = bigint

\* fromBigint of the IPv4 value 0xc0a80101 returned 192.168.1.1
FromBigintOfIPv4Value ==
    /\ Called("fromBigint")
    /\ call.big = [family |-> "ipv4", value |-> <<257, 49320>>]
    /\ call.result = [family |-> "ipv4", ip |-> "192.168.1.1"]

(***************************************************************************)
(* The bounds of a block and the addresses between them                    *)
(***************************************************************************)
\* the value lies in [0, 2^bits - 1]
InFamilyRange(v, family) == ~BigIsNegative(v) /\ BigLess(v, BigPow2(Bits(family)))

\* the accepted addresses of the family of the block whose value lies
\* between its bounds: its network address, its broadcast address, the
\* addresses pulled from its range and the texts given to the schemas
Within(b) ==
    {b.networkAddress, b.broadcastAddress}
        \cup {emitted[i] : i \in 1..Len(emitted)}
        \cup {a \in {Address(t) : t \in IPv4Texts \cup IPv6Texts} :
                /\ a.family = b.address.family
                /\ ~Failed(toBigint(a))
                /\ BigLeq(b.networkAddressAsBigint.value, ValueOf(a))
                /\ BigLeq(ValueOf(a), b.broadcastAddressAsBigint.value)}

SameBounds(b, c) ==
    /\ ~Failed(c)
    /\ c.networkAddress = b.networkAddress
    /\ c.broadcastAddress = b.broadcastAddress
    /\ c.total = b.total

\* C29: the value of the address of every block lies between the values of
\* its network address and its broadcast address, the network value is a
\* multiple of 2^(bits - mask), both bounds lie in [0, 2^bits - 1], and the
\* block of every address between the bounds with the same mask has the same
\* network address, broadcast address and total
BoundsEncloseAddress ==
    IsBlock(block) =>
        /\ BigLeq(block.networkAddressAsBigint.value, ValueOf(block.address))
        /\ BigLeq(ValueOf(block.address), block.broadcastAddressAsBigint.value)
        /\ BigShiftLeft(BigShiftRight(block.networkAddressAsBigint.value,
                                      HostBits(block)), HostBits(block))
              = block.networkAddressAsBigint.value
        /\ InFamilyRange(block.networkAddressAsBigint.value, block.address.family)
        /\ InFamilyRange(block.broadcastAddressAsBigint.value, block.address.family)
        /\ \A x \in Within(block) :
              SameBounds(block, CidrBlock(x.ip, block.mask))

(***************************************************************************)
(* The block of a list and the values of the list                          *)
(***************************************************************************)
\* every address of the list converts to an integer
Converts(list) == \A i \in 1..Len(list) : ~Failed(toBigint(list[i]))

\* the list in the opposite order
Reversed(list) == [i \in 1..Len(list) |-> list[Len(list) + 1 - i]]

\* the lists made from list by reversing it, by repeating its first or its
\* last address, and by replacing one address by another text of the model
\* that has the same value
SameValues(list) ==
    {Reversed(list), <<list[1]>> \o list, Append(list, list[1]),
     Append(list, list[Len(list)])}
        \cup UNION {{[list EXCEPT ![i] = a] :
                        a \in {x \in Addresses :
                                 /\ x.family = list[i].family
                                 /\ ~Failed(toBigint(x))
                                 /\ ValueOf(x) = ValueOf(list[i])}} :
                    i \in 1..Len(list)}

\* both calls failed, or both returned blocks of the same mask whose
\* addresses have the same value
SameBlock(r, q) ==
    IF Failed(r) THEN Failed(q)
    ELSE /\ ~Failed(q)
         /\ q.mask = r.mask
         /\ ValueOf(q.address) = ValueOf(r.address)

\* C30: for a list of addresses of one family, the mask of the block that
\* cidrBlockForRange returns and the value of its address are the same for
\* the list reversed, for the list with an address repeated, and for the
\* list with an address replaced by another text of the same value
RangeDependsOnValuesOnly ==
    (~IsIdle(result) /\ SameFamily(inputs) /\ Converts(inputs)) =>
        \A list \in SameValues(inputs) : SameBlock(result, cidrBlockForRange(list))

\* the block of 2001:db8::1 then ::1 was returned, and the block of ::1 then
\* 2001:DB8:0:0:0:0:0:1 is the same
RangeOfReorderedReturned ==
    /\ Returned
    /\ inputs = <<IPv6("2001:db8::1"), IPv6("::1")>>
    /\ <<IPv6("::1"), IPv6("2001:DB8:0:0:0:0:0:1")>> \in
           {Reversed(list) : list \in SameValues(inputs)}
    /\ ValueOf(result.address) = <<1>>

====
